---- MODULE Spec2Model ----
(***************************************************************************)
(* Aura browser extension: the popup controller (popup.js) and the         *)
(* content-script coordinator that dispatches popup/background messages to *)
(* the page reader and the on-page overlay.                                *)
(*                                                                         *)
(* The popup and the content script are two single-threaded event loops.   *)
(* Every action below is one run-to-completion stretch of one of them:     *)
(* from the start of a handler (or the resumption after an await) to its   *)
(* next suspension point.                                                  *)
(***************************************************************************)
EXTENDS Integers, Sequences, FiniteSets, TLC

VARIABLES
    reader,     \* page reader: its authoritative session status
    overlay,    \* overlay controller: exists, visible, status label, buttons
    popup,      \* popup document: currentStatus, label, button properties
    popupOpen,  \* the popup document is alive and statusInterval is armed
    calls       \* one message round-trip per initiator

vars == <<reader, overlay, popup, popupOpen, calls>>

(***************************************************************************)
(* Bounds                                                                  *)
(***************************************************************************)
\* longest page text the content extractor is made to return
MaxLen == 1
\* the count of overlay.create() calls saturates here
MaxCreates == 2

(***************************************************************************)
(* Constants of common/constants.js                                        *)
(***************************************************************************)
READING_STATUS == {"IDLE", "READING", "PAUSED", "STOPPED", "COMPLETE", "ERROR"}

MESSAGE_TYPES ==
    {"START_READING", "PAUSE_READING", "RESUME_READING", "STOP_READING", "GET_STATUS"}

\* a type the dispatcher has no case for
UnknownType == "UNKNOWN"

(***************************************************************************)
(* popup.js: status label and button rendering                             *)
(***************************************************************************)
statusMessages(status) ==
    CASE status = "IDLE"     -> "Ready to read"
      [] status = "READING"  -> "Reading..."
      [] status = "PAUSED"   -> "Paused"
      [] status = "STOPPED"  -> "Stopped"
      [] status = "COMPLETE" -> "Reading complete"
      [] status = "ERROR"    -> "Error reading page"
      [] OTHER               -> "Ready to read"

updateStatus(p, status) ==
    [p EXCEPT !.currentStatus = status,
              !.statusText = statusMessages(status)]

\* updateButtons with READING_STATUS.ERROR missing from the third case
updateButtons_errorFallsToDefault(p, status) ==
    CASE status = "READING" ->
            [p EXCEPT !.rendered = status,
                      !.readDisabled = TRUE,
                      !.controlsDisplay = "flex",
                      !.pauseDisplay = "block",
                      !.resumeDisplay = "none",
                      !.pauseDisabled = FALSE,
                      !.resumeDisabled = TRUE,
                      !.stopDisabled = FALSE]
      [] status = "PAUSED" ->
            [p EXCEPT !.rendered = status,
                      !.readDisabled = TRUE,
                      !.controlsDisplay = "flex",
                      !.pauseDisplay = "none",
                      !.resumeDisplay = "block",
                      !.pauseDisabled = TRUE,
                      !.resumeDisabled = FALSE,
                      !.stopDisabled = FALSE]
      [] status \in {"COMPLETE", "STOPPED"} ->
            [p EXCEPT !.rendered = status,
                      !.readDisabled = FALSE,
                      !.controlsDisplay = "flex",
                      !.pauseDisplay = "block",
                      !.resumeDisplay = "none",
                      !.pauseDisabled = TRUE,
                      !.resumeDisabled = TRUE,
                      !.stopDisabled = TRUE]
      [] OTHER ->
            [p EXCEPT !.rendered = status,
                      !.readDisabled = FALSE,
                      !.controlsDisplay = "none",
                      !.pauseDisabled = TRUE,
                      !.resumeDisabled = TRUE,
                      !.stopDisabled = TRUE]

updateButtons(p, status) ==
    CASE status = "READING" ->
            [p EXCEPT !.rendered = status,
                      !.readDisabled = TRUE,
                      !.controlsDisplay = "flex",
                      !.pauseDisplay = "block",
                      !.resumeDisplay = "none",
                      !.pauseDisabled = FALSE,
                      !.resumeDisabled = TRUE,
                      !.stopDisabled = FALSE]
      [] status = "PAUSED" ->
            [p EXCEPT !.rendered = status,
                      !.readDisabled = TRUE,
                      !.controlsDisplay = "flex",
                      !.pauseDisplay = "none",
                      !.resumeDisplay = "block",
                      !.pauseDisabled = TRUE,
                      !.resumeDisabled = FALSE,
                      !.stopDisabled = FALSE]
      [] status \in {"COMPLETE", "STOPPED", "ERROR"} ->
            [p EXCEPT !.rendered = status,
                      !.readDisabled = FALSE,
                      !.controlsDisplay = "flex",
                      !.pauseDisplay = "block",
                      !.resumeDisplay = "none",
                      !.pauseDisabled = TRUE,
                      !.resumeDisabled = TRUE,
                      !.stopDisabled = TRUE]
      [] OTHER ->
            [p EXCEPT !.rendered = status,
                      !.readDisabled = FALSE,
                      !.controlsDisplay = "none",
                      !.pauseDisabled = TRUE,
                      !.resumeDisabled = TRUE,
                      !.stopDisabled = TRUE]

\* updateStatus(s); updateButtons(s): the pair every call site makes
setDisplay(p, status) == updateButtons(updateStatus(p, status), status)

\* the popup document as popup.html delivers it: no inline style, nothing
\* disabled, nothing rendered yet
BlankDocument ==
    [currentStatus   |-> "IDLE",
     statusText      |-> "",
     rendered        |-> "none",
     readDisabled    |-> FALSE,
     controlsDisplay |-> "",
     pauseDisplay    |-> "",
     resumeDisplay   |-> "",
     pauseDisabled   |-> FALSE,
     resumeDisabled  |-> FALSE,
     stopDisabled    |-> FALSE,
     statusInterval  |-> "none"]

\* popup.js line 203-204
InitialPopup == setDisplay(BlankDocument, "IDLE")

\* const statusInterval = setInterval(refreshStatus, 1000)
setInterval(p) == [p EXCEPT !.statusInterval = "armed"]

\* a beforeunload listener that leaves the timer alone
clearInterval_missing(p) == p

\* the beforeunload listener: clearInterval(statusInterval)
clearInterval(p) == [p EXCEPT !.statusInterval = "cleared"]

\* the popup script run from the top to its last line
LoadedPopup == setInterval(InitialPopup)

\* the document is gone; only the fate of its timer is left of it
unload(p) == [BlankDocument EXCEPT !.statusInterval = p.statusInterval]

\* a click reaches a button's listener only if the button is enabled and shown
CanClickRead   == ~popup.readDisabled
CanClickPause  == /\ ~popup.pauseDisabled
                  /\ popup.controlsDisplay # "none"
                  /\ popup.pauseDisplay # "none"
CanClickResume == /\ ~popup.resumeDisabled
                  /\ popup.controlsDisplay # "none"
                  /\ popup.resumeDisplay # "none"
CanClickStop   == /\ ~popup.stopDisabled
                  /\ popup.controlsDisplay # "none"

(***************************************************************************)
(* Collaborators of the content script, known by their interface only:     *)
(* the content extractor, the page reader and the overlay controller.      *)
(***************************************************************************)
Chars == {" ", "a"}

\* what extractPageContent() may return: any text of at most MaxLen characters
Contents == UNION {[1..n -> Chars] : n \in 0..MaxLen}

RECURSIVE trimStart(_)
trimStart(s) ==
    IF s # <<>> /\ Head(s) = " " THEN trimStart(Tail(s)) ELSE s

RECURSIVE trimEnd(_)
trimEnd(s) ==
    IF s # <<>> /\ s[Len(s)] = " " THEN trimEnd(SubSeq(s, 1, Len(s) - 1)) ELSE s

\* String.prototype.trim
trim(s) == trimEnd(trimStart(s))

\* the page reader enforces the legal transitions; an illegal request is ignored
readerStart(status)  == IF status \in {"IDLE", "STOPPED", "COMPLETE", "ERROR"}
                        THEN "READING" ELSE status
readerPause(status)  == IF status = "READING" THEN "PAUSED" ELSE status
readerResume(status) == IF status = "PAUSED" THEN "READING" ELSE status
readerStop(status)   == IF status \in {"READING", "PAUSED"} THEN "STOPPED" ELSE status

getStatus(status) == status
isReading(status) == status = "READING"
isPaused(status)  == status = "PAUSED"

InitialOverlay ==
    [exists |-> FALSE, visible |-> FALSE, status |-> "none", buttons |-> "none",
     creates |-> 0]

overlayCreate(ov) ==
    [ov EXCEPT !.exists = TRUE,
               !.creates = IF @ < MaxCreates THEN @ + 1 ELSE @]
overlayShow(ov) == IF ov.exists THEN [ov EXCEPT !.visible = TRUE] ELSE ov
overlayUpdateStatus(ov, status) ==
    IF ov.exists THEN [ov EXCEPT !.status = status] ELSE ov
overlayUpdateButtons(ov, status) ==
    IF ov.exists THEN [ov EXCEPT !.buttons = status] ELSE ov

(***************************************************************************)
(* Content-script coordinator                                              *)
(***************************************************************************)
\* a status callback that updates the overlay's label only
statusCallback_labelOnly(ov, status) == overlayUpdateStatus(ov, status)

\* init: the callback given to pageReader.setStatusCallback
statusCallback(ov, status) ==
    overlayUpdateButtons(overlayUpdateStatus(ov, status), status)

\* the reader calls its status callback whenever its status changes
notify(ov, old, new) == IF new # old THEN statusCallback(ov, new) ELSE ov

\* the content check without trim(): !content || content.length === 0
noReadableContent_untrimmed(content) == content = <<>>

\* startReading: !content || content.trim().length === 0
noReadableContent(content) == content = <<>> \/ Len(trim(content)) = 0

\* startReading creating the overlay without asking overlay.exists()
ensureOverlay_unconditional(ov) == overlayCreate(ov)

\* startReading: if (!overlay.exists()) overlay.create()
ensureOverlay(ov) == IF ~ov.exists THEN overlayCreate(ov) ELSE ov

\* startReading: the overlay calls between the content check and the reader
prepareOverlay(ov) ==
    overlayUpdateButtons(overlayUpdateStatus(overlayShow(ensureOverlay(ov)), "IDLE"), "IDLE")

\* a catch block that creates the overlay to show the error
startReadingCatch_createsOverlay(ov) ==
    overlayUpdateButtons(overlayUpdateStatus(ensureOverlay(ov), "ERROR"), "ERROR")

\* startReading: the catch block
startReadingCatch(ov) ==
    IF ov.exists
    THEN overlayUpdateButtons(overlayUpdateStatus(ov, "ERROR"), "ERROR")
    ELSE ov

\* startReading up to its await of pageReader.startReading(content):
\* threw = the content check failed and the error was rethrown
startReadingSync(content, r, ov) ==
    IF noReadableContent(content)
    THEN [threw |-> TRUE, reader |-> r, overlay |-> startReadingCatch(ov)]
    ELSE LET ov1 == prepareOverlay(ov)
             r1  == readerStart(r)
         IN  [threw |-> FALSE, reader |-> r1, overlay |-> notify(ov1, r, r1)]

(***************************************************************************)
(* Messages and responses                                                  *)
(***************************************************************************)
Success == [success |-> TRUE]
Failure(message) == [error |-> message]
\* the GET_STATUS response with isReading and isPaused exchanged
StatusReport_swapped(r) ==
    [status |-> getStatus(r), isReading |-> isPaused(r), isPaused |-> isReading(r)]

StatusReport(r) ==
    [status |-> getStatus(r), isReading |-> isReading(r), isPaused |-> isPaused(r)]

NoContentError == "No readable content found on this page"
ReaderError == "reader failed"
UnknownTypeError == "Unknown message type"

\* "user": the popup's click handlers; "poll": the popup's refreshStatus;
\* "other": any other sender of the extension (background script)
Channels == {"user", "poll", "other"}
PopupChannels == {"user", "poll"}

FreeCall == [type |-> "none", pc |-> "free", resp |-> <<>>, outcome |-> "none"]

NewCall(type, pc) == [type |-> type, pc |-> pc, resp |-> <<>>, outcome |-> "none"]

\* a call whose handler is not running: never used, or finished
Idle(call) == call.pc \in {"free", "done"}

sendResponse(call, response) == [call EXCEPT !.resp = Append(@, response)]

(***************************************************************************)
(* popup.js: what each handler does once its round-trip has settled.       *)
(* outcome is "notab" (tabs.query found no active tab), "rejected"         *)
(* (sendMessageToTab rejected on chrome.runtime.lastError) or "resolved"   *)
(* (sendMessageToTab resolved with the response).                          *)
(***************************************************************************)
\* a first stretch that resets the label and leaves the buttons alone
startReadingBegin_labelOnly(p) == updateStatus(p, "IDLE")

\* startReading, first stretch: the display is reset before the tab query
startReadingBegin(p) == setDisplay(p, "IDLE")

\* startReading whose catch block only logs, as pauseReading's does
startReadingEnd_catchLogsOnly(p, outcome, response) ==
    IF outcome = "resolved" THEN setDisplay(p, "READING") ELSE p

\* startReading: the rest of the try block, or the catch block
startReadingEnd(p, outcome, response) ==
    IF outcome = "resolved" THEN setDisplay(p, "READING") ELSE setDisplay(p, "ERROR")

\* pauseReading whose catch block shows ERROR, as startReading's does
pauseReadingEnd_catchShowsError(p, outcome, response) ==
    IF outcome = "resolved" THEN setDisplay(p, "PAUSED") ELSE setDisplay(p, "ERROR")

pauseReadingEnd(p, outcome, response) ==
    IF outcome = "resolved" THEN setDisplay(p, "PAUSED") ELSE p

resumeReadingEnd(p, outcome, response) ==
    IF outcome = "resolved" THEN setDisplay(p, "READING") ELSE p

stopReadingEnd(p, outcome, response) ==
    IF outcome = "resolved" THEN setDisplay(p, "STOPPED") ELSE p

\* response && response.status
hasStatus(response) ==
    /\ "status" \in DOMAIN response
    /\ response.status # ""

\* refreshStatus that throws when there is no tab, as startReading does
refreshStatusEnd_throwsOnNoTab(p, outcome, response) ==
    CASE outcome = "resolved" ->
            IF hasStatus(response) THEN setDisplay(p, response.status) ELSE p
      [] OTHER -> setDisplay(p, "IDLE")

\* refreshStatus that never adopts the status of the response
refreshStatusEnd_dropsStatus(p, outcome, response) ==
    CASE outcome = "resolved" -> p
      [] outcome = "notab" -> p
      [] OTHER -> setDisplay(p, "IDLE")

refreshStatusEnd(p, outcome, response) ==
    CASE outcome = "resolved" ->
            IF hasStatus(response) THEN setDisplay(p, response.status) ELSE p
      [] outcome = "notab" -> p
      [] OTHER -> setDisplay(p, "IDLE")

handlerEnd(p, type, outcome, response) ==
    CASE type = "START_READING"  -> startReadingEnd(p, outcome, response)
      [] type = "PAUSE_READING"  -> pauseReadingEnd(p, outcome, response)
      [] type = "RESUME_READING" -> resumeReadingEnd(p, outcome, response)
      [] type = "STOP_READING"   -> stopReadingEnd(p, outcome, response)
      [] OTHER                   -> refreshStatusEnd(p, outcome, response)

\* no response object reaches the handler on these outcomes
NoResponse == [none |-> TRUE]

\* the handler has returned; a status report is consumed by refreshStatus
finished(call, outcome) ==
    [call EXCEPT !.pc = "done", !.outcome = outcome,
                 !.resp = IF call.type = "GET_STATUS" THEN <<>> ELSE @]

(***************************************************************************)
(* Initial state: the content script has run init, the popup script has    *)
(* run to its end (display IDLE, first refreshStatus awaiting tabs.query,  *)
(* statusInterval armed).                                                  *)
(***************************************************************************)
Init ==
    /\ reader = "IDLE"
    /\ overlay = InitialOverlay
    /\ popup = LoadedPopup
    /\ popupOpen = TRUE
    /\ calls = [c \in Channels |->
                  IF c = "poll" THEN NewCall("GET_STATUS", "query") ELSE FreeCall]

(***************************************************************************)
(* Popup actions                                                           *)
(***************************************************************************)
ClickRead ==
    /\ popupOpen /\ CanClickRead /\ Idle(calls["user"])
    /\ popup' = startReadingBegin(popup)
    /\ calls' = [calls EXCEPT !["user"] = NewCall("START_READING", "query")]
    /\ UNCHANGED <<reader, overlay, popupOpen>>

ClickPause ==
    /\ popupOpen /\ CanClickPause /\ Idle(calls["user"])
    /\ calls' = [calls EXCEPT !["user"] = NewCall("PAUSE_READING", "query")]
    /\ UNCHANGED <<reader, overlay, popup, popupOpen>>

ClickResume ==
    /\ popupOpen /\ CanClickResume /\ Idle(calls["user"])
    /\ calls' = [calls EXCEPT !["user"] = NewCall("RESUME_READING", "query")]
    /\ UNCHANGED <<reader, overlay, popup, popupOpen>>

ClickStop ==
    /\ popupOpen /\ CanClickStop /\ Idle(calls["user"])
    /\ calls' = [calls EXCEPT !["user"] = NewCall("STOP_READING", "query")]
    /\ UNCHANGED <<reader, overlay, popup, popupOpen>>

\* setInterval(refreshStatus, 1000) fires
TimerFire ==
    /\ popup.statusInterval = "armed" /\ Idle(calls["poll"])
    /\ calls' = [calls EXCEPT !["poll"] = NewCall("GET_STATUS", "query")]
    /\ UNCHANGED <<reader, overlay, popup, popupOpen>>

\* chrome.tabs.query resolves with a tab: the message is sent
TabFound(c) ==
    /\ popupOpen /\ calls[c].pc = "query"
    /\ calls' = [calls EXCEPT ![c].pc = "sent"]
    /\ UNCHANGED <<reader, overlay, popup, popupOpen>>

\* chrome.tabs.query resolves with no tab
NoTab(c) ==
    /\ popupOpen /\ calls[c].pc = "query"
    /\ popup' = handlerEnd(popup, calls[c].type, "notab", NoResponse)
    /\ calls' = [calls EXCEPT ![c] = finished(@, "notab")]
    /\ UNCHANGED <<reader, overlay, popupOpen>>

\* the message cannot be delivered: chrome.runtime.lastError is set
Unreachable(c) ==
    /\ c \in PopupChannels /\ calls[c].pc = "sent"
    /\ calls' = [calls EXCEPT ![c].pc = "failed"]
    /\ UNCHANGED <<reader, overlay, popup, popupOpen>>

\* sendMessageToTab's callback runs and the awaiting handler resumes
Settle(c) ==
    /\ popupOpen /\ c \in PopupChannels
    /\ \/ /\ calls[c].pc = "failed"
          /\ popup' = handlerEnd(popup, calls[c].type, "rejected", NoResponse)
          /\ calls' = [calls EXCEPT ![c] = finished(@, "rejected")]
       \/ /\ calls[c].pc = "handled" /\ calls[c].resp # <<>>
          /\ popup' = handlerEnd(popup, calls[c].type, "resolved", calls[c].resp[1])
          /\ calls' = [calls EXCEPT ![c] = finished(@, "resolved")]
    /\ UNCHANGED <<reader, overlay, popupOpen>>

\* beforeunload: clearInterval(statusInterval); the document goes away
ClosePopup ==
    /\ popupOpen
    /\ popupOpen' = FALSE
    /\ popup' = unload(clearInterval(popup))
    /\ calls' = [c \in Channels |->
                   IF c \in PopupChannels /\ Idle(calls[c]) THEN FreeCall ELSE calls[c]]
    /\ UNCHANGED <<reader, overlay>>

\* a handler of the closed popup never resumes
Discard(c) ==
    /\ ~popupOpen /\ c \in PopupChannels
    /\ calls[c].pc \in {"query", "failed", "handled"}
    /\ calls' = [calls EXCEPT ![c] = FreeCall]
    /\ UNCHANGED <<reader, overlay, popup, popupOpen>>

\* the popup is opened again: the script runs from the top
OpenPopup ==
    /\ ~popupOpen
    /\ \A c \in PopupChannels : Idle(calls[c])
    /\ popupOpen' = TRUE
    /\ popup' = LoadedPopup
    /\ calls' = [calls EXCEPT !["user"] = FreeCall,
                              !["poll"] = NewCall("GET_STATUS", "query")]
    /\ UNCHANGED <<reader, overlay>>

(***************************************************************************)
(* Content-script actions: handleMessage runs when a message is delivered  *)
(***************************************************************************)
\* What another part of the extension (the background script) sends. Its
\* PAUSE/RESUME/STOP act on the reader as the overlay's buttons do and its
\* GET_STATUS changes nothing, so only the types below add behaviour.
OtherTypes == {"START_READING", UnknownType}

\* a message of this type reaches the listener: one the popup has sent, or
\* one another part of the extension sends now
Delivered(c, type) ==
    IF c = "other"
    THEN type \in OtherTypes /\ calls[c].pc \in {"free", "handled"}
    ELSE calls[c].pc = "sent" /\ calls[c].type = type

Message(c, type) == IF c = "other" THEN NewCall(type, "sent") ELSE calls[c]

\* sendResponse({ success: true }) ends the handler
respondSuccess(call) == [sendResponse(call, Success) EXCEPT !.pc = "handled"]

\* handleMessage whose catch block only logs
handleMessageCatch_logsOnly(call, message) == [call EXCEPT !.pc = "handled"]

\* handleMessage: the catch block
handleMessageCatch(call, message) ==
    [sendResponse(call, Failure(message)) EXCEPT !.pc = "handled"]

\* case START_READING, up to the await inside startReading; an empty page
\* throws at once and the handler ends in its catch block
HandleStartWith(c, content) ==
    /\ Delivered(c, "START_READING")
    /\ LET r == startReadingSync(content, reader, overlay)
       IN  /\ reader' = r.reader
           /\ overlay' = r.overlay
           /\ calls' = [calls EXCEPT ![c] =
                          IF r.threw
                          THEN handleMessageCatch(Message(c, "START_READING"), NoContentError)
                          ELSE [Message(c, "START_READING") EXCEPT !.pc = "awaitReader"]]
    /\ UNCHANGED <<popup, popupOpen>>

\* extractPageContent() returns whatever the page holds
HandleStart(c) == \E content \in Contents : HandleStartWith(c, content)

\* pageReader.startReading(content) resolves
ReaderStartResolves(c) ==
    /\ calls[c].pc = "awaitReader"
    /\ calls' = [calls EXCEPT ![c] = respondSuccess(@)]
    /\ UNCHANGED <<reader, overlay, popup, popupOpen>>

\* pageReader.startReading(content) rejects: the reader reports ERROR, then
\* startReading's catch and handleMessage's catch run
ReaderStartRejects(c) ==
    /\ calls[c].pc = "awaitReader"
    /\ reader = "READING"
    /\ reader' = "ERROR"
    /\ overlay' = startReadingCatch(notify(overlay, reader, "ERROR"))
    /\ calls' = [calls EXCEPT ![c] = handleMessageCatch(@, ReaderError)]
    /\ UNCHANGED <<popup, popupOpen>>

\* a dispatcher whose PAUSE_READING case calls pageReader.stop()
HandlePause_stops(c) ==
    /\ Delivered(c, "PAUSE_READING")
    /\ reader' = readerStop(reader)
    /\ overlay' = notify(overlay, reader, reader')
    /\ calls' = [calls EXCEPT ![c] = respondSuccess(Message(c, "PAUSE_READING"))]
    /\ UNCHANGED <<popup, popupOpen>>

HandlePause(c) ==
    /\ Delivered(c, "PAUSE_READING")
    /\ reader' = readerPause(reader)
    /\ overlay' = notify(overlay, reader, reader')
    /\ calls' = [calls EXCEPT ![c] = respondSuccess(Message(c, "PAUSE_READING"))]
    /\ UNCHANGED <<popup, popupOpen>>

HandleResume(c) ==
    /\ Delivered(c, "RESUME_READING")
    /\ reader' = readerResume(reader)
    /\ overlay' = notify(overlay, reader, reader')
    /\ calls' = [calls EXCEPT ![c] = respondSuccess(Message(c, "RESUME_READING"))]
    /\ UNCHANGED <<popup, popupOpen>>

HandleStop(c) ==
    /\ Delivered(c, "STOP_READING")
    /\ reader' = readerStop(reader)
    /\ overlay' = notify(overlay, reader, reader')
    /\ calls' = [calls EXCEPT ![c] = respondSuccess(Message(c, "STOP_READING"))]
    /\ UNCHANGED <<popup, popupOpen>>

HandleGetStatus(c) ==
    /\ Delivered(c, "GET_STATUS")
    /\ calls' = [calls EXCEPT ![c] =
                   [sendResponse(Message(c, "GET_STATUS"), StatusReport(reader))
                      EXCEPT !.pc = "handled"]]
    /\ UNCHANGED <<reader, overlay, popup, popupOpen>>

\* a dispatcher whose default case falls into STOP_READING
HandleUnknown_stops(c) ==
    /\ Delivered(c, UnknownType)
    /\ reader' = readerStop(reader)
    /\ overlay' = notify(overlay, reader, reader')
    /\ calls' = [calls EXCEPT ![c] = respondSuccess(Message(c, UnknownType))]
    /\ UNCHANGED <<popup, popupOpen>>

\* the default case
HandleUnknown(c) ==
    /\ Delivered(c, UnknownType)
    /\ calls' = [calls EXCEPT ![c] =
                   [sendResponse(Message(c, UnknownType), Failure(UnknownTypeError))
                      EXCEPT !.pc = "handled"]]
    /\ UNCHANGED <<reader, overlay, popup, popupOpen>>

(***************************************************************************)
(* The content script's surroundings                                       *)
(***************************************************************************)
\* the reader reaches the end of the text
ReaderComplete ==
    /\ reader = "READING"
    /\ reader' = "COMPLETE"
    /\ overlay' = notify(overlay, reader, reader')
    /\ UNCHANGED <<popup, popupOpen, calls>>

\* init: the callbacks given to overlay.setCallbacks
OverlayPause ==
    /\ overlay.exists /\ overlay.visible
    /\ reader' = readerPause(reader)
    /\ overlay' = notify(overlay, reader, reader')
    /\ UNCHANGED <<popup, popupOpen, calls>>

OverlayResume ==
    /\ overlay.exists /\ overlay.visible
    /\ reader' = readerResume(reader)
    /\ overlay' = notify(overlay, reader, reader')
    /\ UNCHANGED <<popup, popupOpen, calls>>

OverlayStop ==
    /\ overlay.exists /\ overlay.visible
    /\ reader' = readerStop(reader)
    /\ overlay' = notify(overlay, reader, reader')
    /\ UNCHANGED <<popup, popupOpen, calls>>

\* the overlay is hidden from the page
OverlayHide ==
    /\ overlay.exists /\ overlay.visible
    /\ overlay' = [overlay EXCEPT !.visible = FALSE]
    /\ UNCHANGED <<reader, popup, popupOpen, calls>>

Next ==
    \/ ClickRead
    \/ ClickPause
    \/ ClickResume
    \/ ClickStop
    \/ TimerFire
    \/ ClosePopup
    \/ OpenPopup
    \/ \E c \in PopupChannels : TabFound(c)
    \/ \E c \in PopupChannels : NoTab(c)
    \/ \E c \in PopupChannels : Unreachable(c)
    \/ \E c \in PopupChannels : Settle(c)
    \/ \E c \in PopupChannels : Discard(c)
    \/ \E c \in Channels : HandleStart(c)
    \/ \E c \in Channels : ReaderStartResolves(c)
    \/ \E c \in Channels : ReaderStartRejects(c)
    \/ \E c \in PopupChannels : HandlePause(c)
    \/ \E c \in PopupChannels : HandleResume(c)
    \/ \E c \in PopupChannels : HandleStop(c)
    \/ \E c \in PopupChannels : HandleGetStatus(c)
    \/ HandleUnknown("other")
    \/ ReaderComplete
    \/ OverlayPause
    \/ OverlayResume
    \/ OverlayStop
    \/ OverlayHide

Spec == Init /\ [][Next]_vars

(***************************************************************************)
(* updateButtons as a function of the document and the status: every       *)
(* document the buttons can be in, every status and two values that are    *)
(* none of READING_STATUS.                                                 *)
(***************************************************************************)
Documents ==
    [currentStatus   : {"IDLE"},
     statusText      : {""},
     rendered        : {"none"},
     readDisabled    : BOOLEAN,
     controlsDisplay : {"", "none", "flex"},
     pauseDisplay    : {"", "none", "block"},
     resumeDisplay   : {"", "none", "block"},
     pauseDisabled   : BOOLEAN,
     resumeDisabled  : BOOLEAN,
     stopDisabled    : BOOLEAN,
     statusInterval  : {"none"}]

StatusInputs == READING_STATUS \cup {"", "bogus"}

InitButtons ==
    /\ reader = "IDLE"
    /\ overlay = InitialOverlay
    /\ popup \in Documents
    /\ popupOpen = TRUE
    /\ calls = [c \in Channels |-> FreeCall]

RenderButtons ==
    /\ \E status \in StatusInputs : popup' = updateButtons(popup, status)
    /\ UNCHANGED <<reader, overlay, popupOpen, calls>>

SpecButtons == InitButtons /\ [][RenderButtons]_vars

(***************************************************************************)
(* Properties                                                              *)
(***************************************************************************)
\* the step in which the popup handler that sent `type` on channel c returns
Ends(c, type) ==
    /\ calls[c].type = type
    /\ calls[c].pc # "done"
    /\ calls'[c].pc = "done"

Shows(p, status) == p.currentStatus = status /\ p.statusText = statusMessages(status)

\* C1: the popup's startReading ends with the display at READING when the
\* active tab was found and the START_READING round-trip resolved, and at
\* ERROR when there was no active tab or the send was rejected.
C1_StartEndsReadingOrError ==
    [][\A c \in PopupChannels :
         Ends(c, "START_READING") =>
            IF calls'[c].outcome = "resolved"
            THEN Shows(popup', "READING")
            ELSE Shows(popup', "ERROR")]_vars

C1_Witness ==
    /\ calls["user"].type = "START_READING"
    /\ calls["user"].pc = "done"
    /\ calls["user"].outcome = "rejected"
    /\ popup.currentStatus = "ERROR"

\* C2: whenever the content script answers START_READING with an error
\* because a collaborator threw, the popup's startReading ends with the
\* display at ERROR.
C2_CollaboratorErrorShown ==
    [][\A c \in PopupChannels :
         (/\ Ends(c, "START_READING")
          /\ calls[c].pc = "handled"
          /\ "error" \in DOMAIN calls[c].resp[1])
         => Shows(popup', "ERROR")]_vars

ControlTarget(type) ==
    CASE type = "PAUSE_READING"  -> "PAUSED"
      [] type = "RESUME_READING" -> "READING"
      [] type = "STOP_READING"   -> "STOPPED"

\* C4: pauseReading, resumeReading and stopReading end with the display at
\* PAUSED, READING and STOPPED when the round-trip resolved, and leave the
\* display and every button as they were on any failure.
C4_ControlsKeepDisplayOnFailure ==
    [][\A c \in PopupChannels :
         \A type \in {"PAUSE_READING", "RESUME_READING", "STOP_READING"} :
            Ends(c, type) =>
               IF calls'[c].outcome = "resolved"
               THEN Shows(popup', ControlTarget(type))
               ELSE popup' = popup]_vars

C4_Witness ==
    /\ calls["user"].type = "PAUSE_READING"
    /\ calls["user"].pc = "done"
    /\ calls["user"].outcome = "rejected"
    /\ popup.currentStatus = "READING"
    /\ ~popup.pauseDisabled

\* C5: after updateButtons(S): READING enables pause and stop only, PAUSED
\* enables resume and stop only, COMPLETE/STOPPED/ERROR enable start only
\* with the control row shown, anything else hides the control row, enables
\* start and disables pause, resume and stop.
C5_ButtonTable ==
    popup.rendered # "none" =>
       CASE popup.rendered = "READING" ->
               /\ popup.readDisabled /\ ~popup.pauseDisabled
               /\ popup.resumeDisabled /\ ~popup.stopDisabled
         [] popup.rendered = "PAUSED" ->
               /\ popup.readDisabled /\ popup.pauseDisabled
               /\ ~popup.resumeDisabled /\ ~popup.stopDisabled
         [] popup.rendered \in {"COMPLETE", "STOPPED", "ERROR"} ->
               /\ ~popup.readDisabled /\ popup.pauseDisabled
               /\ popup.resumeDisabled /\ popup.stopDisabled
               /\ popup.controlsDisplay = "flex"
         [] OTHER ->
               /\ ~popup.readDisabled /\ popup.pauseDisabled
               /\ popup.resumeDisabled /\ popup.stopDisabled
               /\ popup.controlsDisplay = "none"

C5_Witness ==
    /\ popup.rendered = "bogus"
    /\ popup.controlsDisplay = "none"
    /\ popup.pauseDisplay = "block"

\* C6: a message the content script has finished handling has exactly one
\* response, whichever path the handler took; a message not yet handled has
\* none; no message ever has two.
C6_ExactlyOneResponse ==
    \A c \in Channels :
       /\ Len(calls[c].resp) <= 1
       /\ calls[c].pc = "handled" => Len(calls[c].resp) = 1
       /\ calls[c].pc \in {"query", "sent", "awaitReader", "failed"} => calls[c].resp = <<>>

C6_Witness ==
    \E c \in Channels :
       /\ calls[c].type = "START_READING"
       /\ calls[c].pc = "handled"
       /\ calls[c].resp = <<Failure(ReaderError)>>

\* text that is empty or made of white space only
Blank(content) == \A i \in 1..Len(content) : content[i] = " "

BlankContents == {content \in Contents : Blank(content)}

\* C7: START_READING on a page whose extracted text is empty or white space
\* neither creates nor shows the overlay, leaves the reader as it was, and
\* is answered with {error: message}.
C7_BlankPageFails ==
    [][\A c \in Channels :
         (/\ calls'[c].pc \in {"handled", "awaitReader"}
          /\ calls[c].pc # "awaitReader"
          /\ calls'[c] # calls[c] \/ overlay' # overlay \/ reader' # reader) =>
            \A content \in BlankContents :
               HandleStartWith(c, content) =>
                  /\ overlay'.creates = overlay.creates
                  /\ overlay'.exists = overlay.exists
                  /\ overlay'.visible = overlay.visible
                  /\ reader' = reader
                  /\ calls'[c].pc = "handled"
                  /\ calls'[c].resp = <<Failure(NoContentError)>>]_vars

C7_Witness ==
    /\ calls["user"].type = "START_READING"
    /\ calls["user"].pc = "handled"
    /\ calls["user"].resp = <<Failure(NoContentError)>>
    /\ overlay.exists
    /\ ~overlay.visible

\* the step in which startReading gets past its content check on channel c
StartsReader(c) == calls[c].pc # "awaitReader" /\ calls'[c].pc = "awaitReader"

\* C8: overlay.create() is called only while the overlay does not exist, so
\* at most once over any sequence of START_READING messages, and every
\* START_READING with readable text leaves the overlay existing and shown
\* and the reader started.
C8_OverlayCreatedOnce ==
    [][/\ overlay'.creates <= 1
       /\ overlay'.creates # overlay.creates => ~overlay.exists
       /\ \A c \in Channels :
            StartsReader(c) =>
               /\ overlay'.exists
               /\ overlay'.visible
               /\ reader \notin {"READING", "PAUSED"} => reader' = "READING"]_vars

C8_Witness ==
    /\ calls["user"].pc = "awaitReader"
    /\ calls["other"].pc = "awaitReader"
    /\ overlay.creates = 1
    /\ overlay.visible

\* the step in which the content script answers GET_STATUS on channel c
AnswersStatus(c) ==
    /\ calls[c].type = "GET_STATUS"
    /\ calls[c].pc = "sent"
    /\ calls'[c].pc = "handled"

\* C9: GET_STATUS is answered with the reader's status, isReading and
\* isPaused as they are, which before any START_READING has got as far as
\* the overlay is {status: IDLE, isReading: false, isPaused: false}, and
\* it changes neither the reader nor the overlay.
C9_GetStatusReadsOnly ==
    [][\A c \in PopupChannels :
         AnswersStatus(c) =>
            /\ calls'[c].resp =
                  <<[status |-> reader,
                     isReading |-> (reader = "READING"),
                     isPaused |-> (reader = "PAUSED")]>>
            /\ ~overlay.exists =>
                  calls'[c].resp =
                     <<[status |-> "IDLE", isReading |-> FALSE, isPaused |-> FALSE]>>
            /\ reader' = reader
            /\ overlay' = overlay]_vars

C9_Witness ==
    /\ calls["poll"].type = "GET_STATUS"
    /\ calls["poll"].pc = "handled"
    /\ calls["poll"].resp = <<[status |-> "IDLE", isReading |-> FALSE, isPaused |-> FALSE]>>
    /\ ~overlay.exists
    /\ calls["other"].pc = "free"
    /\ calls["user"].pc = "free"

\* C10: a message of a type the dispatcher does not know is answered with
\* {error: 'Unknown message type'} and changes neither the reader nor the
\* overlay.
C10_UnknownTypeChangesNothing ==
    [][(calls'["other"] # calls["other"] /\ calls'["other"].type = UnknownType) =>
          /\ calls'["other"].pc = "handled"
          /\ calls'["other"].resp = <<Failure(UnknownTypeError)>>
          /\ reader' = reader
          /\ overlay' = overlay]_vars

C10_Witness ==
    /\ calls["other"].type = UnknownType
    /\ calls["other"].pc = "handled"
    /\ calls["other"].resp = <<Failure(UnknownTypeError)>>
    /\ reader = "PAUSED"
    /\ overlay.visible

(***************************************************************************)
(* The event loops under fair scheduling: an armed interval timer fires, a *)
(* pending chrome.tabs.query resolves, a message that was sent is          *)
(* delivered or fails, a callback that is due runs, and the page reader    *)
(* settles a start it was given.                                           *)
(***************************************************************************)
PollStep ==
    \/ TimerFire
    \/ TabFound("poll") \/ NoTab("poll")
    \/ Unreachable("poll") \/ HandleGetStatus("poll")
    \/ Settle("poll")

SpecFair == Spec /\ WF_vars(PollStep)

\* the step in which a refreshStatus invocation begins
PollBegins == calls["poll"].pc # "query" /\ calls'["poll"].pc = "query"

\* C11: as long as the popup stays open its timer starts refreshStatus again
\* and again, and no refreshStatus starts in a step that leaves the popup
\* torn down.
C11_PollsUntilTeardown ==
    /\ []<>(~popupOpen) \/ []<><<TimerFire>>_vars
    /\ [][PollBegins => popupOpen']_vars

C11_Witness ==
    /\ ~popupOpen
    /\ popup.statusInterval = "cleared"
    /\ calls["poll"].pc = "handled"

\* a step in which no tab is missing and no send fails
StaysReachable ==
    \A c \in PopupChannels :
       /\ calls'[c].pc = "failed" => calls[c].pc = "failed"
       /\ calls'[c].outcome = "notab" => calls[c].outcome = "notab"

\* a step in which no click handler of the popup starts
NoNewRequest == calls'["user"].pc = "query" => calls["user"].pc = "query"

\* C12 as stated: if from some point on the popup stays open, the content
\* script stays reachable and the reader's status no longer changes, then
\* from some point on the popup shows the reader's status.
C12_EventuallyConsistent ==
    (/\ <>[]popupOpen
     /\ <>[][StaysReachable]_vars
     /\ <>[][reader' = reader]_vars)
    => <>[](popup.currentStatus = reader)

\* C12 as amended: the same, provided that from some point on no further
\* request is started from the popup's buttons.
C12_ConsistentOnceClicksStop ==
    (/\ <>[]popupOpen
     /\ <>[][StaysReachable]_vars
     /\ <>[][reader' = reader]_vars
     /\ <>[][NoNewRequest]_vars)
    => <>[](popup.currentStatus = reader)

C12_Witness ==
    /\ popupOpen
    /\ calls["user"].type = "PAUSE_READING"
    /\ calls["user"].pc = "done"
    /\ calls["user"].outcome = "resolved"
    /\ calls["poll"].pc = "done"
    /\ calls["poll"].outcome = "resolved"
    /\ reader = "STOPPED"
    /\ popup.currentStatus = reader

\* the reader method that corresponds to a control message
ReaderMethod(type, status) ==
    CASE type = "PAUSE_READING"  -> readerPause(status)
      [] type = "RESUME_READING" -> readerResume(status)
      [] type = "STOP_READING"   -> readerStop(status)

\* the step in which handleMessage dispatches a message of this type
Dispatches(c, type) ==
    /\ calls[c].type = type
    /\ calls[c].pc = "sent"
    /\ calls'[c].pc = "handled"

\* C13: dispatching PAUSE_READING, RESUME_READING or STOP_READING has the
\* effect of the corresponding reader method and of nothing else (the
\* overlay changes only through the reader's status callback) and is
\* answered {success: true}; a START_READING is answered {success: true}
\* only in a step that follows the reader's start, when it has resolved.
C13_DispatchOneToOne ==
    [][\A c \in Channels :
         /\ \A type \in {"PAUSE_READING", "RESUME_READING", "STOP_READING"} :
              Dispatches(c, type) =>
                 /\ reader' = ReaderMethod(type, reader)
                 /\ overlay' = notify(overlay, reader, reader')
                 /\ calls'[c].resp = <<Success>>
         /\ (/\ calls'[c].type = "START_READING"
             /\ calls'[c].resp = <<Success>>
             /\ calls[c].resp # calls'[c].resp)
            => /\ calls[c].pc = "awaitReader"
               /\ calls[c].type = "START_READING"
               /\ reader' = reader
               /\ overlay' = overlay]_vars

C13_Witness ==
    /\ calls["user"].type = "PAUSE_READING"
    /\ calls["user"].pc = "handled"
    /\ calls["user"].resp = <<Success>>
    /\ reader = "PAUSED"
    /\ calls["other"].type = "START_READING"
    /\ calls["other"].resp = <<Success>>

\* the step in which a START_READING is answered after startReading threw
FailsStart(c) ==
    /\ calls'[c].type = "START_READING"
    /\ calls'[c].resp # calls[c].resp
    /\ calls'[c].resp # <<>>
    /\ calls'[c].resp # <<Success>>

\* C14: when START_READING fails with a thrown error the response is
\* {error: message}; the overlay is set to ERROR (status and buttons) if it
\* existed and is left alone otherwise, no overlay is created, and the
\* reader is not started again: it keeps its status when the page had no
\* text and is in ERROR when its own start failed.
C14_StartFailure ==
    [][\A c \in Channels :
         FailsStart(c) =>
            /\ calls'[c].pc = "handled"
            /\ calls'[c].resp = <<Failure(IF calls[c].pc = "awaitReader"
                                          THEN ReaderError ELSE NoContentError)>>
            /\ overlay'.creates = overlay.creates
            /\ overlay' = IF overlay.exists
                          THEN [overlay EXCEPT !.status = "ERROR", !.buttons = "ERROR"]
                          ELSE overlay
            /\ reader' = IF calls[c].pc = "awaitReader" THEN "ERROR" ELSE reader]_vars

C14_Witness ==
    /\ calls["other"].type = "START_READING"
    /\ calls["other"].resp = <<Failure(NoContentError)>>
    /\ overlay.exists
    /\ overlay.status = "ERROR"
    /\ overlay.buttons = "ERROR"
    /\ reader = "READING"

\* what a press of an overlay button may do: the reader takes the status
\* its method gives, and nothing is sent, answered or shown in the popup
PressOnly(target) ==
    /\ reader' = target
    /\ overlay'.exists = overlay.exists
    /\ overlay'.visible = overlay.visible
    /\ overlay'.creates = overlay.creates
    /\ UNCHANGED <<calls, popup, popupOpen>>

\* C15: every change of the reader's status is shown in the overlay's
\* status label and in its buttons, and a press of the overlay's pause,
\* resume or stop button has the effect of the reader's pause, resume or
\* stop method and sends no message.
C15_CallbacksWired ==
    [][/\ (reader' # reader /\ overlay'.exists)
          => overlay'.status = reader' /\ overlay'.buttons = reader'
       /\ OverlayPause  => PressOnly(readerPause(reader))
       /\ OverlayResume => PressOnly(readerResume(reader))
       /\ OverlayStop   => PressOnly(readerStop(reader))]_vars

C15_Witness ==
    /\ popupOpen
    /\ calls["user"].pc = "free"
    /\ calls["other"].pc = "handled"
    /\ calls["other"].resp = <<Success>>
    /\ reader = "PAUSED"
    /\ overlay.status = "PAUSED"
    /\ overlay.buttons = "PAUSED"

\* a START_READING has been dispatched and its handler has not yet ended
StartInProgress ==
    \E c \in Channels :
       calls[c].type = "START_READING" /\ calls[c].pc = "awaitReader"

\* C16: whenever the overlay exists and no START_READING dispatch is in
\* progress, the status the overlay shows is the reader's status.
C16_OverlayShowsReaderStatus ==
    (overlay.exists /\ ~StartInProgress) => overlay.status = reader

\* the step in which a click starts the handler that sends this type
Requests(type) ==
    /\ calls["user"].pc # "query"
    /\ calls'["user"].pc = "query"
    /\ calls'["user"].type = type

\* C17: while the popup is open and no handler is in the middle of a step,
\* the buttons are as updateButtons leaves them for the displayed status,
\* so a click starts a pause request only while the display is READING, a
\* resume request only while it is PAUSED, a stop request only while it is
\* READING or PAUSED and a start request only while it is IDLE, COMPLETE,
\* STOPPED or ERROR.
C17_ButtonsFollowDisplay ==
    /\ [](popupOpen => /\ popup.rendered = popup.currentStatus
                       /\ popup = updateButtons(popup, popup.currentStatus))
    /\ [][/\ Requests("PAUSE_READING")  => popup.currentStatus = "READING"
          /\ Requests("RESUME_READING") => popup.currentStatus = "PAUSED"
          /\ Requests("STOP_READING")   => popup.currentStatus \in {"READING", "PAUSED"}
          /\ Requests("START_READING")
             => popup.currentStatus \in {"IDLE", "COMPLETE", "STOPPED", "ERROR"}]_vars

C17_Witness ==
    /\ popupOpen
    /\ calls["user"].type = "RESUME_READING"
    /\ calls["user"].pc = "query"
    /\ popup.currentStatus = "PAUSED"
    /\ popup.rendered = "PAUSED"
    /\ reader = "STOPPED"

\* the status a popup request aims at
Target(type) ==
    IF type = "START_READING" THEN "READING" ELSE ControlTarget(type)

PopupRequests == {"START_READING", "PAUSE_READING", "RESUME_READING", "STOP_READING"}

\* the step in which the content script takes this request of the popup to
\* the point from which only {success: true} can answer it, short of a
\* failure of the reader itself
Accepts(type) ==
    /\ calls["user"].type = type
    /\ calls["user"].pc = "sent"
    /\ calls'["user"].pc = IF type = "START_READING" THEN "awaitReader" ELSE "handled"

\* C18: a popup handler that ends by showing its target status had its
\* request answered {success: true}, and the content script gives that
\* answer only to a request that took the reader into the target status.
C18_DisplayedTargetWasApplied ==
    [][\A type \in PopupRequests :
         /\ (/\ Ends("user", type)
             /\ calls'["user"].outcome = "resolved"
             /\ Shows(popup', Target(type)))
            => calls["user"].resp = <<Success>>
         /\ Accepts(type)
            => reader' = Target(type) /\ reader # Target(type)]_vars

====
